---- MODULE Spec2Model ----
(***************************************************************************)
(* Model of the product-data catalog utilities:                            *)
(*   src/rename_yaml_to_short_id.py   (the rename command)                 *)
(*   src/generate_category_csvs.py    (the CSV command)                    *)
(*                                                                         *)
(* Python strings are sequences of one-character strings, so that          *)
(* str.replace, str.endswith, str.strip, str.lower and the substring test  *)
(* `in` are computed character by character as Python computes them.       *)
(***************************************************************************)
EXTENDS Integers, Sequences, FiniteSets, TLC

VARIABLES
    pc,        \* position of the running command
    fs,        \* the catalog tree: region -> category -> file name -> file content
    args,      \* rename command: the parsed flags [dry_run, yes]
    response,  \* rename command: the line read by input(), NoInput before
    regionIdx, \* index in `regions` of the region being walked
    catTodo,   \* categories of the region still to visit
    curCat,    \* the category being processed
    fileTodo,  \* the rest of the category's directory listing
    counts,    \* renamed_count, skipped_count, error_count of the category
    log,       \* what the run printed per file: [region, category, file, action, target]
    fs0,       \* the tree as it was when the run started
    prev,      \* the previous run of the session: [ran, args, response, fs0, log]
    runs,      \* number of commands started in the session
    master,    \* CSV command: the --master flag
    pass,      \* CSV command: "category" (generate_all_category_csvs) or "master"
    products,  \* CSV command: the products collected so far
    rowsTodo,  \* CSV command: the sorted products not yet written
    csv,       \* CSV files: region -> [top, states] -> file name -> content
    masterCsv, \* all_products.csv
    out,       \* CSV command: what happened to each YAML file read
    fnDoc,     \* pure-function harness: the document passed in
    fnFile,    \* pure-function harness: the filename passed in
    fnRes      \* pure-function harness: the outcome of the call

walkVars == <<regionIdx, catTodo, curCat, fileTodo, counts>>
renameVars == <<args, response, log, fs0, prev, runs>>
csvVars == <<master, pass, products, rowsTodo, csv, masterCsv, out>>
fnVars == <<fnDoc, fnFile, fnRes>>
vars == <<pc, fs, args, response, regionIdx, catTodo, curCat, fileTodo, counts,
          log, fs0, prev, runs, master, pass, products, rowsTodo, csv, masterCsv, out,
          fnDoc, fnFile, fnRes>>

\* bounds of the model
MaxFiles == 2
MaxRuns == 2
MaxCsvFiles == 3

(***************************************************************************)
(* Strings                                                                 *)
(***************************************************************************)
EXT_YAML == <<".", "y", "a", "m", "l">>
EXT_YML == <<".", "y", "m", "l">>
KEY_open_xpd_uuid == <<"o", "p", "e", "n", "_", "x", "p", "d", "_", "u", "u", "i", "d">>
KEY_name == <<"n", "a", "m", "e">>
KEY_product_specific == <<"p", "r", "o", "d", "u", "c", "t", "_", "s", "p", "e", "c", "i", "f", "i", "c">>
KEY_product_name == <<"p", "r", "o", "d", "u", "c", "t", "_", "n", "a", "m", "e">>
UNKNOWN_PRODUCT == <<"U", "n", "k", "n", "o", "w", "n", " ", "P", "r", "o", "d", "u", "c", "t">>

\* str.startswith at a position: does `sub` occur in `s` starting at index i
OccursAt(s, sub, i) ==
    /\ i + Len(sub) - 1 <= Len(s)
    /\ \A k \in 1..Len(sub) : s[i + k - 1] = sub[k]

\* str.endswith(suffix)
EndsWith(s, suffix) ==
    /\ Len(suffix) <= Len(s)
    /\ OccursAt(s, suffix, Len(s) - Len(suffix) + 1)

\* the substring test `sub in s` on two str
Contains(s, sub) == \E i \in 1..(Len(s) + 1) : OccursAt(s, sub, i)

\* str.replace(old, ''): every non-overlapping occurrence of `old`, scanning
\* left to right, is removed (old is non-empty)
RECURSIVE ReplaceWithEmpty(_, _)
ReplaceWithEmpty(s, old) ==
    IF Len(s) < Len(old) THEN s
    ELSE IF OccursAt(s, old, 1)
         THEN ReplaceWithEmpty(SubSeq(s, Len(old) + 1, Len(s)), old)
         ELSE <<Head(s)>> \o ReplaceWithEmpty(Tail(s), old)

\* filename.replace('.yaml', '').replace('.yml', '')
StripExtensions(filename) ==
    ReplaceWithEmpty(ReplaceWithEmpty(filename, EXT_YAML), EXT_YML)

\* f.endswith('.yaml') or f.endswith('.yml')
IsYamlName(filename) == EndsWith(filename, EXT_YAML) \/ EndsWith(filename, EXT_YML)

(***************************************************************************)
(* Python values.  Every value is a record [t, s]: t is its type and s its *)
(* text (the characters of a str, the digits of an int, <<>> otherwise).   *)
(*   t = "absent" : the key is not in the mapping                          *)
(*   t = "none"   : None (a YAML null)                                     *)
(*   t = "str", "int"                                                      *)
(* The value under product_specific is [t, s, pn]: for t = "map", pn is    *)
(* the value under its key product_name; for t = "list" the list is [s].   *)
(***************************************************************************)
Absent == [t |-> "absent", s |-> <<>>]
PyNone == [t |-> "none", s |-> <<>>]
PyStr(s) == [t |-> "str", s |-> s]
PyInt(digits) == [t |-> "int", s |-> digits]

PsAbsent == [t |-> "absent", s |-> <<>>, pn |-> Absent]
PsNone == [t |-> "none", s |-> <<>>, pn |-> Absent]
PsStr(s) == [t |-> "str", s |-> s, pn |-> Absent]
PsInt(digits) == [t |-> "int", s |-> digits, pn |-> Absent]
PsList(s) == [t |-> "list", s |-> s, pn |-> Absent]
PsMap(pn) == [t |-> "map", s |-> <<>>, pn |-> pn]

\* bool(v): None, '' and 0 are false
Truthy(v) ==
    CASE v.t = "str" -> v.s # <<>>
      [] v.t = "int" -> v.s # <<"0">>
      [] OTHER -> FALSE

(***************************************************************************)
(* What yaml.safe_load gives for a file:                                   *)
(*   kind = "error" : safe_load raises (malformed YAML)                    *)
(*   kind = "none"  : an empty document, None                              *)
(*   kind = "int"   : a scalar integer document (its digits in `text`)     *)
(*   kind = "str"   : a scalar string document (`text`)                    *)
(*   kind = "map"   : a mapping; each modelled key holds a value or is     *)
(*                    absent, `other` tells whether it has any other key   *)
(***************************************************************************)
Doc(kind, text) ==
    [kind |-> kind, text |-> text, other |-> FALSE,
     name |-> Absent, product_specific |-> PsAbsent, product_name |-> Absent,
     open_xpd_uuid |-> Absent, gwp |-> Absent, declared_unit |-> Absent]
ParseError == Doc("error", <<>>)
EmptyDoc == Doc("none", <<>>)

\* `key in yaml_data` for a top-level key; "TypeError" when the document does
\* not support the test
HasKey(d, key, field) ==
    CASE d.kind = "map" -> IF field.t # "absent" THEN "yes" ELSE "no"
      [] d.kind = "str" -> IF Contains(d.text, key) THEN "yes" ELSE "no"
      [] OTHER -> "TypeError"

\* bool(yaml_data)
DocTruthy(d) ==
    CASE d.kind = "map" ->
            \/ d.other
            \/ d.name.t # "absent" \/ d.product_specific.t # "absent"
            \/ d.product_name.t # "absent" \/ d.open_xpd_uuid.t # "absent"
            \/ d.gwp.t # "absent" \/ d.declared_unit.t # "absent"
      [] d.kind = "str" -> d.text # <<>>
      [] d.kind = "int" -> d.text # <<"0">>
      [] OTHER -> FALSE

\* The outcome of a call: a returned value, or the exception raised.
Return(v) == [exc |-> "", v |-> v]
Raise(e) == [exc |-> e, v |-> Absent]

\* 'product_name' in yaml_data['product_specific']
PsHasProductName(ps) ==
    CASE ps.t = "map" -> IF ps.pn.t # "absent" THEN "yes" ELSE "no"
      [] ps.t = "str" -> IF Contains(ps.s, KEY_product_name) THEN "yes" ELSE "no"
      [] ps.t = "list" -> IF ps.s = KEY_product_name THEN "yes" ELSE "no"
      [] OTHER -> "TypeError"

\* yaml_data['product_specific']['product_name']
PsGetProductName(ps) ==
    IF ps.t = "map" THEN Return(ps.pn) ELSE Raise("TypeError")

\* yaml_data[key] once `key in yaml_data` was true
GetItem(d, field) ==
    IF d.kind = "map" THEN Return(field) ELSE Raise("TypeError")

extract_product_name(d) ==
    LET n == HasKey(d, KEY_name, d.name)
        p == HasKey(d, KEY_product_specific, d.product_specific)
        q == HasKey(d, KEY_product_name, d.product_name)
    IN
    IF n = "TypeError" THEN Raise("TypeError")
    ELSE IF n = "yes" THEN GetItem(d, d.name)
    ELSE IF p = "yes" /\ d.kind # "map" THEN Raise("TypeError")
    ELSE IF p = "yes" /\ PsHasProductName(d.product_specific) = "TypeError"
         THEN Raise("TypeError")
    ELSE IF p = "yes" /\ PsHasProductName(d.product_specific) = "yes"
         THEN PsGetProductName(d.product_specific)
    ELSE IF q = "yes" THEN GetItem(d, d.product_name)
    ELSE Return(PyStr(UNKNOWN_PRODUCT))

extract_short_id(d, filename) ==
    LET k == HasKey(d, KEY_open_xpd_uuid, d.open_xpd_uuid) IN
    IF k = "TypeError" THEN Raise("TypeError")
    ELSE IF k = "yes" THEN GetItem(d, d.open_xpd_uuid)
    ELSE Return(PyStr(StripExtensions(filename)))

(***************************************************************************)
(* Ordering of str: code points compared position by position.            *)
(***************************************************************************)
ASCII ==
    <<" ", "-", ".", "0", "1", "2", "3", "4", "5", "6", "7", "8", "9",
      "A", "B", "C", "D", "E", "F", "G", "H", "I", "J", "K", "L", "M",
      "N", "O", "P", "Q", "R", "S", "T", "U", "V", "W", "X", "Y", "Z", "_",
      "a", "b", "c", "d", "e", "f", "g", "h", "i", "j", "k", "l", "m",
      "n", "o", "p", "q", "r", "s", "t", "u", "v", "w", "x", "y", "z">>
CodePoint(c) == CHOOSE i \in 1..Len(ASCII) : ASCII[i] = c

\* a < b on two str
StrLess(a, b) ==
    \E k \in 1..(Len(a) + 1) :
        /\ k <= Len(b)
        /\ \A j \in 1..(k - 1) : a[j] = b[j]
        /\ \/ k = Len(a) + 1
           \/ CodePoint(a[k]) < CodePoint(b[k])

\* the orders in which a set can be listed
Perms(S) ==
    {q \in [1..Cardinality(S) -> S] : \A i, j \in 1..Cardinality(S) : i # j => q[i] # q[j]}

\* sorted(S) for a set of str
SortedSeq(S) == CHOOSE q \in Perms(S) : \A i, j \in 1..Len(q) : i < j => StrLess(q[i], q[j])

(***************************************************************************)
(* The catalog tree                                                        *)
(***************************************************************************)
US == <<"U", "S">>
IN_ == <<"I", "N">>
CN == <<"C", "N">>
EU == <<"E", "U">>
\* regions = ['US', 'IN', 'CN', 'EU']
regions == <<US, IN_, CN, EU>>
RegionSet == {regions[i] : i \in 1..Len(regions)}

AK == <<"A", "K">>
WOOD == <<"w", "o", "o", "d">>
STATES == <<"s", "t", "a", "t", "e", "s">>
CatNames == {AK, WOOD, STATES}

\* the identifiers and file names of the model
ID_S == <<"s">>
ID_T == <<"t">>
ID_S_YML == <<"s">> \o EXT_YML
LONG_YAML == <<"l", "o", "n", "g">> \o EXT_YAML
S_YAML == ID_S \o EXT_YAML
S_YML == ID_S \o EXT_YML
S_YML_YAML == ID_S_YML \o EXT_YAML
NOTES_TXT == <<"n", "o", "t", "e", "s", ".", "t", "x", "t">>
Ids == {ID_S, ID_T, ID_S_YML}
InitNames == {LONG_YAML, S_YAML, S_YML, S_YML_YAML, NOTES_TXT}
Names == InitNames \cup {id \o EXT_YAML : id \in Ids}

NoFile == Doc("nofile", <<>>)
WithId(v) == [Doc("map", <<>>) EXCEPT !.open_xpd_uuid = v]
NoIdDoc == [Doc("map", <<>>) EXCEPT !.other = TRUE]

EmptyDir == [exists |-> TRUE, writable |-> TRUE, files |-> [n \in Names |-> NoFile]]
NoDir == [exists |-> FALSE, writable |-> FALSE, files |-> [n \in Names |-> NoFile]]

\* os.listdir of a category directory, as a set
ListDir(dir) == {n \in Names : dir.files[n].kind # "nofile"}

\* os.path.exists of a name in a category directory
Exists(dir, n) == n \in Names /\ dir.files[n].kind # "nofile"

(***************************************************************************)
(* rename_yaml_to_short_id.py                                              *)
(***************************************************************************)
LogEntry(r, c, f, action, target) ==
    [region |-> r, category |-> c, file |-> f, action |-> action, target |-> target]

\* The decision taken for one listed file (the body of the try block up to the
\* exists() test): the action and, for delete and rename, the target name.
Decide(dir, filename) ==
    LET d == dir.files[filename]
        k == HasKey(d, KEY_open_xpd_uuid, d.open_xpd_uuid)
        short_id == d.open_xpd_uuid
        new_filename == short_id.s \o EXT_YAML
    IN
    IF d.kind \in {"nofile", "error"} THEN [action |-> "error", target |-> <<>>]
    ELSE IF ~DocTruthy(d) THEN [action |-> "skip_empty", target |-> <<>>]
    ELSE IF k = "TypeError" THEN [action |-> "error", target |-> <<>>]
    ELSE IF k = "no" THEN [action |-> "skip_missing", target |-> <<>>]
    ELSE IF GetItem(d, short_id).exc # "" THEN [action |-> "error", target |-> <<>>]
    ELSE IF ~Truthy(short_id) \/ short_id.t # "str"
         THEN [action |-> "skip_invalid", target |-> <<>>]
    ELSE IF StripExtensions(filename) = short_id.s
         THEN [action |-> "skip_noop", target |-> <<>>]
    ELSE IF Exists(dir, new_filename) THEN [action |-> "delete", target |-> new_filename]
    ELSE [action |-> "rename", target |-> new_filename]

\* os.remove(old_path)
Remove(dir, filename) == [dir EXCEPT !.files[filename] = NoFile]

\* os.rename(old_path, new_path)
Rename(dir, filename, new_filename) ==
    [dir EXCEPT !.files[new_filename] = dir.files[filename], !.files[filename] = NoFile]

\* input().strip(): leading and trailing whitespace removed
RECURSIVE LStrip(_)
LStrip(s) == IF s # <<>> /\ Head(s) = " " THEN LStrip(Tail(s)) ELSE s
RECURSIVE RStrip(_)
RStrip(s) ==
    IF s # <<>> /\ s[Len(s)] = " " THEN RStrip(SubSeq(s, 1, Len(s) - 1)) ELSE s
Strip(s) == RStrip(LStrip(s))

\* str.lower()
LowerChar(c) ==
    LET i == CodePoint(c) IN
    IF CodePoint("A") <= i /\ i <= CodePoint("Z")
    THEN ASCII[i - CodePoint("A") + CodePoint("a")]
    ELSE c
Lower(s) == [i \in 1..Len(s) |-> LowerChar(s[i])]

\* a gate that only refuses an explicit no
ConfirmedUnlessNo(line) == Lower(Strip(line)) \notin {<<"n", "o">>, <<"n">>}
\* confirm_operation(dry_run=False): response in ['yes', 'y']
Confirmed(line) == Lower(Strip(line)) \in {<<"y", "e", "s">>, <<"y">>}

NoInput == <<"-">>
Responses == {<<"y", "e", "s">>, <<" ", "Y">>, <<"n">>, <<>>}

NoCounts == [renamed |-> 0, skipped |-> 0, errors |-> 0]
NoPrev ==
    [ran |-> FALSE, args |-> [dry_run |-> FALSE, yes |-> FALSE], response |-> NoInput,
     fs0 |-> <<>>, log |-> <<>>]

\* __main__: parse the flags; prompt unless --yes or --dry-run
Invoke ==
    /\ pc \in {"shell", "exited"}
    /\ runs < MaxRuns
    /\ \E dry_run, yes \in BOOLEAN :
        /\ args' = [dry_run |-> dry_run, yes |-> yes]
        /\ pc' = IF ~yes /\ ~dry_run THEN "confirm" ELSE "walk"
    /\ prev' = IF pc = "exited"
               THEN [ran |-> TRUE, args |-> args, response |-> response,
                     fs0 |-> fs0, log |-> log]
               ELSE prev
    /\ runs' = runs + 1
    /\ response' = NoInput
    /\ fs0' = fs
    /\ log' = <<>>
    /\ regionIdx' = 0
    /\ catTodo' = <<>>
    /\ fileTodo' = <<>>
    /\ counts' = NoCounts
    /\ UNCHANGED <<fs, curCat, csvVars, fnVars>>

\* confirm_operation: read the answer; anything but yes / y ends the command
Confirm ==
    /\ pc = "confirm"
    /\ \E line \in Responses :
        /\ response' = line
        /\ pc' = IF Confirmed(line) THEN "walk" ELSE "exited"
    /\ UNCHANGED <<fs, args, walkVars, log, fs0, prev, runs, csvVars, fnVars>>

\* rename_all_yaml_files: the next region of `regions`
NextRegion ==
    /\ pc = "walk"
    /\ catTodo = <<>> /\ fileTodo = <<>>
    /\ regionIdx < Len(regions)
    /\ regionIdx' = regionIdx + 1
    /\ LET region == fs[regions[regionIdx + 1]] IN
       catTodo' = IF region.exists
                  THEN SortedSeq({c \in CatNames : region.cats[c].exists /\ c # STATES})
                  ELSE <<>>
    /\ UNCHANGED <<pc, fs, curCat, fileTodo, counts, renameVars, csvVars, fnVars>>

\* rename_yaml_files_in_category: list the YAML files of the next category
EnterCategory ==
    /\ pc = "walk"
    /\ catTodo # <<>> /\ fileTodo = <<>>
    /\ curCat' = Head(catTodo)
    /\ catTodo' = Tail(catTodo)
    /\ \E yaml_files \in Perms({f \in ListDir(fs[regions[regionIdx]].cats[Head(catTodo)]) :
                                    IsYamlName(f)}) :
        fileTodo' = yaml_files
    /\ counts' = NoCounts
    /\ UNCHANGED <<pc, fs, regionIdx, renameVars, csvVars, fnVars>>

\* one iteration of `for filename in yaml_files`
ProcessFile ==
    /\ pc = "walk"
    /\ fileTodo # <<>>
    /\ LET region == regions[regionIdx]
           dir == fs[region].cats[curCat]
           filename == Head(fileTodo)
           dec == Decide(dir, filename)
           mutates == dec.action \in {"delete", "rename"} /\ ~args.dry_run
           failed == mutates /\ ~dir.writable
           action == IF failed THEN "error" ELSE dec.action
       IN
       /\ fs' = IF mutates /\ ~failed
                THEN [fs EXCEPT ![region].cats[curCat] =
                        IF dec.action = "delete" THEN Remove(dir, filename)
                        ELSE Rename(dir, filename, dec.target)]
                ELSE fs
       /\ log' = Append(log, LogEntry(region, curCat, filename, action,
                                      IF failed THEN <<>> ELSE dec.target))
       /\ counts' =
            CASE action = "rename" -> [counts EXCEPT !.renamed = @ + 1]
              [] action \in {"skip_empty", "skip_noop"} -> [counts EXCEPT !.skipped = @ + 1]
              [] action \in {"skip_missing", "skip_invalid", "error"} ->
                    [counts EXCEPT !.errors = @ + 1]
              [] OTHER -> counts
    /\ fileTodo' = Tail(fileTodo)
    /\ UNCHANGED <<pc, args, response, regionIdx, catTodo, curCat, fs0, prev, runs, csvVars, fnVars>>

\* the walk is over: the command prints its closing lines and ends
Finish ==
    /\ pc = "walk"
    /\ catTodo = <<>> /\ fileTodo = <<>>
    /\ regionIdx = Len(regions)
    /\ pc' = "exited"
    /\ UNCHANGED <<fs, args, response, walkVars, log, fs0, prev, runs, csvVars, fnVars>>

(***************************************************************************)
(* generate_category_csvs.py                                               *)
(***************************************************************************)
EXT_CSV == <<".", "c", "s", "v">>
KEY_ID == <<"I", "D">>
KEY_gwp == <<"g", "w", "p">>
KEY_declared_unit == <<"d", "e", "c", "l", "a", "r", "e", "d", "_", "u", "n", "i", "t">>
KEY_category == <<"c", "a", "t", "e", "g", "o", "r", "y">>
KEY_region == <<"r", "e", "g", "i", "o", "n">>
\* fieldnames of the category CSV and of the master CSV
CategoryHeader == <<KEY_ID, KEY_name, KEY_gwp, KEY_declared_unit, KEY_category>>
MasterHeader == <<KEY_region, KEY_category, KEY_ID, KEY_name, KEY_gwp, KEY_declared_unit>>

\* csv_filename = f"{region_code}-{category_name}.csv"
CsvName(region, category) == region \o <<"-">> \o category \o EXT_CSV
CsvNames == {CsvName(regions[i], c) : i \in 1..Len(regions), c \in CatNames \ {STATES}}

NoCsv == [exists |-> FALSE, rows |-> <<>>]
CsvFile(rows) == [exists |-> TRUE, rows |-> rows]

\* str.split(sep) for a one-character separator
RECURSIVE Split(_, _)
Split(s, sep) ==
    IF \E i \in 1..Len(s) : s[i] = sep
    THEN LET i == CHOOSE k \in 1..Len(s) : s[k] = sep /\ \A j \in 1..(k - 1) : s[j] # sep
         IN <<SubSeq(s, 1, i - 1)>> \o Split(SubSeq(s, i + 1, Len(s)), sep)
    ELSE <<s>>

\* the test of move_state_csvs_to_subfolder on one file name of the region
IsStateCsv(filename, region_code) ==
    /\ EndsWith(filename, EXT_CSV)
    /\ OccursAt(filename, region_code \o <<"-">>, 1)
    /\ LET parts == Split(ReplaceWithEmpty(filename, EXT_CSV), "-") IN
       Len(parts) = 2 /\ Len(parts[2]) = 2

\* yaml_data.get(key, '')
GetOrEmpty(field) == IF field.t = "absent" THEN PyStr(<<>>) ELSE field

\* the body of the try block for one YAML file: the product appended, or
\* "skipped" (falsy document), or "error" (an exception, caught and printed)
ScanOutcome(d, filename, region, category) ==
    LET sid == extract_short_id(d, filename)
        nm == extract_product_name(d)
    IN
    IF d.kind \in {"nofile", "error"} THEN [outcome |-> "error", product |-> <<>>]
    ELSE IF ~DocTruthy(d) THEN [outcome |-> "skipped", product |-> <<>>]
    ELSE IF sid.exc # "" \/ nm.exc # "" \/ d.kind # "map"
         THEN [outcome |-> "error", product |-> <<>>]
    ELSE [outcome |-> "row",
          product |-> [region |-> region, category |-> category, ID |-> sid.v,
                       name |-> nm.v, gwp |-> GetOrEmpty(d.gwp),
                       declared_unit |-> GetOrEmpty(d.declared_unit)]]

\* a < b on two int, given by their digits (non-negative, no leading zero)
IntLess(a, b) == Len(a) < Len(b) \/ (Len(a) = Len(b) /\ StrLess(a, b))

\* x < y on two values; "TypeError" when Python does not order them
ValueLess(x, y) ==
    CASE x.t = "str" /\ y.t = "str" -> IF StrLess(x.s, y.s) THEN "yes" ELSE "no"
      [] x.t = "int" /\ y.t = "int" -> IF IntLess(x.s, y.s) THEN "yes" ELSE "no"
      [] OTHER -> "TypeError"

\* key(a) < key(b): the name in the category pass; the tuple (region,
\* category, name) in the master pass, compared at its first unequal item
KeyLess(a, b, which) ==
    IF which = "category" THEN ValueLess(a.name, b.name)
    ELSE IF a.region # b.region THEN (IF StrLess(a.region, b.region) THEN "yes" ELSE "no")
    ELSE IF a.category # b.category
         THEN (IF StrLess(a.category, b.category) THEN "yes" ELSE "no")
    ELSE IF a.name = b.name THEN "no"
    ELSE ValueLess(a.name, b.name)

\* sorted() raises when two products it has to order cannot be compared
SortRaises(ps, which) ==
    \E i, j \in 1..Len(ps) :
        /\ i # j
        /\ which = "master" => (ps[i].region = ps[j].region /\ ps[i].category = ps[j].category)
        /\ KeyLess(ps[i], ps[j], which) = "TypeError"

\* sorted(ps, key=...): stable
RECURSIVE InsertSorted(_, _, _)
InsertSorted(x, sorted, which) ==
    IF sorted = <<>> THEN <<x>>
    ELSE IF KeyLess(x, Head(sorted), which) = "yes" THEN <<x>> \o sorted
    ELSE <<Head(sorted)>> \o InsertSorted(x, Tail(sorted), which)
RECURSIVE Sorted(_, _)
Sorted(ps, which) ==
    IF ps = <<>> THEN <<>>
    ELSE InsertSorted(ps[Len(ps)], Sorted(SubSeq(ps, 1, Len(ps) - 1), which), which)

\* what csv.DictWriter writes for a value: None as the empty string
CsvCell(v) == IF v.t \in {"none", "absent"} THEN <<>> ELSE v.s

\* writer.writerow(product)
CsvRow(product, which) ==
    IF which = "category"
    THEN <<CsvCell(product.ID), CsvCell(product.name), CsvCell(product.gwp),
           CsvCell(product.declared_unit), product.category>>
    ELSE <<product.region, product.category, CsvCell(product.ID), CsvCell(product.name),
           CsvCell(product.gwp), CsvCell(product.declared_unit)>>

\* the output file of the pass being written, and its replacement
OutRows == IF pass = "category"
           THEN csv[regions[regionIdx]].top[CsvName(regions[regionIdx], curCat)].rows
           ELSE masterCsv.rows
SetOut(rows) ==
    IF pass = "category"
    THEN /\ csv' = [csv EXCEPT ![regions[regionIdx]].top[CsvName(regions[regionIdx], curCat)] =
                        CsvFile(rows)]
         /\ UNCHANGED masterCsv
    ELSE /\ masterCsv' = CsvFile(rows)
         /\ UNCHANGED csv

\* __main__ of the CSV command
CsvInvoke ==
    /\ pc = "shell"
    /\ \E m \in BOOLEAN : master' = m
    /\ pc' = "csv_regions"
    /\ pass' = "category"
    /\ regionIdx' = 0
    /\ UNCHANGED <<fs, catTodo, curCat, fileTodo, counts, renameVars,
                   products, rowsTodo, csv, masterCsv, out, fnVars>>

\* `for region in regions` of either pass: list the region's categories
CsvNextRegion ==
    /\ pc = "csv_regions"
    /\ regionIdx < Len(regions)
    /\ regionIdx' = regionIdx + 1
    /\ LET region == fs[regions[regionIdx + 1]] IN
       IF region.exists
       THEN /\ \E listing \in Perms({c \in CatNames : region.cats[c].exists /\ c # STATES}) :
                catTodo' = listing
            /\ pc' = "csv_cats"
       ELSE UNCHANGED <<pc, catTodo>>
    /\ UNCHANGED <<fs, curCat, fileTodo, counts, renameVars, csvVars, fnVars>>

\* the next category of the region: list its directory
CsvEnterCategory ==
    /\ pc = "csv_cats"
    /\ catTodo # <<>>
    /\ curCat' = Head(catTodo)
    /\ catTodo' = Tail(catTodo)
    /\ \E listing \in Perms(ListDir(fs[regions[regionIdx]].cats[Head(catTodo)])) :
        fileTodo' = listing
    /\ products' = IF pass = "category" THEN <<>> ELSE products
    /\ pc' = "csv_scan"
    /\ UNCHANGED <<fs, regionIdx, counts, renameVars,
                   master, pass, rowsTodo, csv, masterCsv, out, fnVars>>

\* one iteration of `for filename in os.listdir(category_path)`
CsvScanFile ==
    /\ pc = "csv_scan"
    /\ fileTodo # <<>>
    /\ LET region == regions[regionIdx]
           filename == Head(fileTodo)
           res == ScanOutcome(fs[region].cats[curCat].files[filename], filename, region, curCat)
       IN
       IF IsYamlName(filename)
       THEN /\ products' = IF res.outcome = "row" THEN Append(products, res.product)
                           ELSE products
            /\ out' = Append(out, [pass |-> pass, region |-> region, category |-> curCat,
                                   file |-> filename, outcome |-> res.outcome])
       ELSE UNCHANGED <<products, out>>
    /\ fileTodo' = Tail(fileTodo)
    /\ UNCHANGED <<pc, fs, regionIdx, catTodo, curCat, counts, renameVars,
                   master, pass, rowsTodo, csv, masterCsv, fnVars>>

\* the listing is exhausted: the category pass opens the category's CSV for
\* writing when it has products; the master pass goes on collecting
CsvEndScan ==
    /\ pc = "csv_scan"
    /\ fileTodo = <<>>
    /\ IF pass = "category" /\ products # <<>>
       THEN /\ SetOut(<<>>)
            /\ pc' = "csv_header"
       ELSE /\ pc' = "csv_cats"
            /\ UNCHANGED <<csv, masterCsv>>
    /\ UNCHANGED <<fs, walkVars, renameVars, master, pass, products, rowsTodo, out, fnVars>>

\* writer.writeheader(), then sorted(...) is evaluated: an exception leaves
\* the `with` block (the file is closed) and ends the command
CsvWriteHeader ==
    /\ pc = "csv_header"
    /\ SetOut(<<IF pass = "category" THEN CategoryHeader ELSE MasterHeader>>)
    /\ IF SortRaises(products, pass)
       THEN /\ pc' = "crashed"
            /\ UNCHANGED rowsTodo
       ELSE /\ pc' = "csv_rows"
            /\ rowsTodo' = Sorted(products, pass)
    /\ UNCHANGED <<fs, walkVars, renameVars, master, pass, products, out, fnVars>>

\* writer.writerow(product)
CsvWriteRow ==
    /\ pc = "csv_rows"
    /\ rowsTodo # <<>>
    /\ SetOut(Append(OutRows, CsvRow(Head(rowsTodo), pass)))
    /\ rowsTodo' = Tail(rowsTodo)
    /\ UNCHANGED <<pc, fs, walkVars, renameVars, master, pass, products, out, fnVars>>

\* the file is closed: back to the walk, or the end of the master pass
CsvClose ==
    /\ pc = "csv_rows"
    /\ rowsTodo = <<>>
    /\ pc' = IF pass = "category" THEN "csv_cats" ELSE "exited"
    /\ UNCHANGED <<fs, walkVars, renameVars, csvVars, fnVars>>

\* the categories of the region are done: the category pass calls
\* move_state_csvs_to_subfolder(region_path)
CsvLeaveRegion ==
    /\ pc = "csv_cats"
    /\ catTodo = <<>>
    /\ LET region == regions[regionIdx] IN
       IF pass = "category"
       THEN /\ fs' = [fs EXCEPT ![region].cats[STATES] =
                        IF @.exists THEN @ ELSE EmptyDir]
            /\ csv' = [csv EXCEPT ![region] =
                        [top |-> [n \in CsvNames |->
                                    IF csv[region].top[n].exists /\ IsStateCsv(n, region)
                                    THEN NoCsv ELSE csv[region].top[n]],
                         states |-> [n \in CsvNames |->
                                    IF csv[region].top[n].exists /\ IsStateCsv(n, region)
                                    THEN csv[region].top[n] ELSE csv[region].states[n]]]]
       ELSE UNCHANGED <<fs, csv>>
    /\ pc' = "csv_regions"
    /\ UNCHANGED <<walkVars, renameVars, master, pass, products, rowsTodo, masterCsv, out,
                   fnVars>>

\* every region has been walked: the category pass is followed by the master
\* pass under --master; the master pass opens all_products.csv when it has
\* products
CsvEndPass ==
    /\ pc = "csv_regions"
    /\ regionIdx = Len(regions)
    /\ IF pass = "category"
       THEN /\ IF master
               THEN /\ pass' = "master"
                    /\ regionIdx' = 0
                    /\ products' = <<>>
                    /\ UNCHANGED pc
               ELSE /\ pc' = "exited"
                    /\ UNCHANGED <<pass, regionIdx, products>>
            /\ UNCHANGED <<csv, masterCsv>>
       ELSE /\ IF products # <<>>
               THEN /\ SetOut(<<>>)
                    /\ pc' = "csv_header"
               ELSE /\ pc' = "exited"
                    /\ UNCHANGED <<csv, masterCsv>>
            /\ UNCHANGED <<pass, regionIdx, products>>
    /\ UNCHANGED <<fs, catTodo, curCat, fileTodo, counts, renameVars, master, rowsTodo, out,
                   fnVars>>

(***************************************************************************)
(* The pure-function harness: one call of extract_short_id or of           *)
(* extract_product_name on a document and a filename.                      *)
(***************************************************************************)
NoCall == [op |-> "none", res |-> Return(Absent)]

CallExtractShortId ==
    /\ pc = "call"
    /\ fnRes = NoCall
    /\ fnRes' = [op |-> "extract_short_id", res |-> extract_short_id(fnDoc, fnFile)]
    /\ UNCHANGED <<pc, fs, walkVars, renameVars, csvVars, fnDoc, fnFile>>

CallExtractProductName ==
    /\ pc = "call"
    /\ fnRes = NoCall
    /\ fnRes' = [op |-> "extract_product_name", res |-> extract_product_name(fnDoc)]
    /\ UNCHANGED <<pc, fs, walkVars, renameVars, csvVars, fnDoc, fnFile>>

(***************************************************************************)
(* The trees a session of the rename command starts from: at most MaxFiles *)
(* files.  The category US/wood may hold any of InitNames with any of      *)
(* RenameContents; US/AK, US/states and IN/wood may each hold long.yaml    *)
(* with one of SideContents, and IN/wood may be read-only.  CN and EU are  *)
(* never present.                                                          *)
(***************************************************************************)
RenameContents ==
    {WithId(PyStr(ID_S)), WithId(PyStr(ID_T)), WithId(PyStr(ID_S_YML)),
     WithId(PyStr(<<>>)), NoIdDoc, EmptyDoc, ParseError}
SideContents == {WithId(PyStr(ID_S)), ParseError}
MainPlaces == {<<US, WOOD, n>> : n \in InitNames}
SidePlaces == {<<US, AK, LONG_YAML>>, <<US, STATES, LONG_YAML>>, <<IN_, WOOD, LONG_YAML>>}

\* the smaller trees the confirmation gate is exercised on
GatePlaces ==
    {<<US, WOOD, LONG_YAML>>, <<US, WOOD, S_YAML>>, <<IN_, WOOD, LONG_YAML>>, <<IN_, WOOD, S_YAML>>}
GateContents == {WithId(PyStr(ID_S)), WithId(PyStr(ID_T)), ParseError}

RECURSIVE SubsetsUpTo(_, _)
SubsetsUpTo(S, k) ==
    IF k = 0 THEN {{}}
    ELSE LET R == SubsetsUpTo(S, k - 1) IN R \cup {r \cup {x} : r \in R, x \in S}

TreeOf(P, content, readonly) ==
    [r \in RegionSet |->
        [exists |-> r = US \/ \E p \in P : p[1] = r,
         cats |-> [c \in CatNames |->
            [exists |-> \E p \in P : p[1] = r /\ p[2] = c,
             writable |-> <<r, c>> \notin readonly,
             files |-> [n \in Names |->
                IF <<r, c, n>> \in P THEN content[<<r, c, n>>] ELSE NoFile]]]]]

Idle ==
    /\ pc = "shell"
    /\ args = [dry_run |-> FALSE, yes |-> FALSE]
    /\ response = NoInput
    /\ regionIdx = 0
    /\ catTodo = <<>>
    /\ curCat = WOOD
    /\ fileTodo = <<>>
    /\ counts = NoCounts
    /\ log = <<>>
    /\ fs0 = fs
    /\ prev = NoPrev
    /\ runs = 0
    /\ master = FALSE
    /\ pass = "category"
    /\ products = <<>>
    /\ rowsTodo = <<>>
    /\ masterCsv = NoCsv
    /\ out = <<>>

NoCsvs == [r \in RegionSet |-> [top |-> [n \in CsvNames |-> NoCsv],
                                 states |-> [n \in CsvNames |-> NoCsv]]]
NoFn ==
    /\ fnDoc = EmptyDoc
    /\ fnFile = <<>>
    /\ fnRes = NoCall

Init ==
    /\ \E P \in SubsetsUpTo(MainPlaces \cup SidePlaces, MaxFiles) :
       \E content \in [P -> RenameContents] :
       \E readonly \in {{}, {<<IN_, WOOD>>} \cap {<<p[1], p[2]>> : p \in P}} :
            /\ \A p \in P \cap SidePlaces : content[p] \in SideContents
            /\ fs = TreeOf(P, content, readonly)
    /\ csv = NoCsvs
    /\ Idle
    /\ NoFn

GateInit ==
    /\ \E P \in SubsetsUpTo(GatePlaces, MaxFiles) :
       \E content \in [P -> GateContents] :
            fs = TreeOf(P, content, {})
    /\ csv = NoCsvs
    /\ Idle
    /\ NoFn

Next ==
    \/ Invoke
    \/ Confirm
    \/ NextRegion
    \/ EnterCategory
    \/ ProcessFile
    \/ Finish

Spec == Init /\ [][Next]_vars

SpecGate == GateInit /\ [][Next]_vars

(***************************************************************************)
(* The CSV command starts from a tree of at most MaxCsvFiles files: in     *)
(* US/wood long.yaml and s.yml.yaml with any of CsvContents and notes.txt; *)
(* in US/AK, US/states and IN/wood long.yaml with one of CsvSideContents.  *)
(* The CSV files of an earlier run are all present, or none is.            *)
(***************************************************************************)
NamedB == [Doc("map", <<>>) EXCEPT !.name = PyStr(<<"B">>), !.open_xpd_uuid = PyStr(ID_S),
                                   !.gwp = PyInt(<<"5">>)]
NamedA == [Doc("map", <<>>) EXCEPT !.name = PyStr(<<"A">>)]
NullName == [Doc("map", <<>>) EXCEPT !.name = PyNone, !.open_xpd_uuid = PyStr(ID_T)]
NullSpecific == [Doc("map", <<>>) EXCEPT !.product_specific = PsNone,
                                         !.product_name = PyStr(<<"C">>)]
CsvContents == {NamedB, NamedA, NullName, NullSpecific, ParseError, EmptyDoc}
CsvSideContents == {NamedB, ParseError}
CsvMainPlaces == {<<US, WOOD, LONG_YAML>>, <<US, WOOD, S_YML_YAML>>}
CsvNotes == {<<US, WOOD, NOTES_TXT>>}

OldCategoryReport == CsvFile(<<CategoryHeader, <<<<"o">>, <<"O">>, <<>>, <<>>, <<"o">>>>>>)
OldMasterReport == CsvFile(<<MasterHeader, <<<<"o">>, <<"o">>, <<"o">>, <<"O">>, <<>>, <<>>>>>>)
OldCsvs == [r \in RegionSet |->
                [top |-> [n \in CsvNames |->
                            IF fs[r].exists /\ OccursAt(n, r \o <<"-">>, 1)
                               /\ ~IsStateCsv(n, r)
                            THEN OldCategoryReport ELSE NoCsv],
                 states |-> [n \in CsvNames |->
                            IF fs[r].exists /\ IsStateCsv(n, r)
                            THEN OldCategoryReport ELSE NoCsv]]]

CsvInit ==
    /\ \E P \in SubsetsUpTo(CsvMainPlaces \cup CsvNotes \cup SidePlaces, MaxCsvFiles) :
       \E content \in [P -> CsvContents] :
            /\ \A p \in P \cap SidePlaces : content[p] \in CsvSideContents
            /\ \A p \in P \cap CsvNotes : content[p] = NamedB
            /\ fs = TreeOf(P, content, {})
    /\ \E old \in BOOLEAN :
            /\ csv = IF old THEN OldCsvs ELSE NoCsvs
            /\ masterCsv = IF old THEN OldMasterReport ELSE NoCsv
    /\ pc = "shell"
    /\ args = [dry_run |-> FALSE, yes |-> FALSE]
    /\ response = NoInput
    /\ regionIdx = 0
    /\ catTodo = <<>>
    /\ curCat = WOOD
    /\ fileTodo = <<>>
    /\ counts = NoCounts
    /\ log = <<>>
    /\ fs0 = fs
    /\ prev = NoPrev
    /\ runs = 0
    /\ master = FALSE
    /\ pass = "category"
    /\ products = <<>>
    /\ rowsTodo = <<>>
    /\ out = <<>>
    /\ NoFn

CsvNext ==
    \/ CsvInvoke
    \/ CsvNextRegion
    \/ CsvEnterCategory
    \/ CsvScanFile
    \/ CsvEndScan
    \/ CsvWriteHeader
    \/ CsvWriteRow
    \/ CsvClose
    \/ CsvLeaveRegion
    \/ CsvEndPass

SpecCsv == CsvInit /\ [][CsvNext]_vars

(***************************************************************************)
(* The documents and filenames the two extract functions are called on.    *)
(***************************************************************************)
FnMaps ==
    {[Doc("map", <<>>) EXCEPT !.name = n, !.product_specific = ps, !.product_name = pn,
                              !.open_xpd_uuid = id] :
        n \in {Absent, PyStr(<<"A">>), PyNone},
        ps \in {PsAbsent, PsNone, PsStr(<<"x">>), PsStr(KEY_product_name),
                PsList(<<"x">>), PsList(KEY_product_name), PsInt(<<"7">>),
                PsMap(Absent), PsMap(PyStr(<<"B">>))},
        pn \in {Absent, PyStr(<<"C">>)},
        id \in {Absent, PyNone, PyStr(<<>>), PyStr(ID_S), PyInt(<<"7">>)}}
FnDocs == FnMaps \cup {Doc("int", <<"4", "2">>), Doc("str", <<"x">>), Doc("str", KEY_name),
                       Doc("str", KEY_open_xpd_uuid)}
FnFiles == {LONG_YAML, S_YML, S_YML_YAML, NOTES_TXT}

FnInit ==
    /\ fnDoc \in FnDocs
    /\ fnFile \in FnFiles
    /\ fnRes = NoCall
    /\ pc = "call"
    /\ fs = TreeOf({}, <<>>, {})
    /\ csv = NoCsvs
    /\ args = [dry_run |-> FALSE, yes |-> FALSE]
    /\ response = NoInput
    /\ regionIdx = 0
    /\ catTodo = <<>>
    /\ curCat = WOOD
    /\ fileTodo = <<>>
    /\ counts = NoCounts
    /\ log = <<>>
    /\ fs0 = fs
    /\ prev = NoPrev
    /\ runs = 0
    /\ master = FALSE
    /\ pass = "category"
    /\ products = <<>>
    /\ rowsTodo = <<>>
    /\ masterCsv = NoCsv
    /\ out = <<>>

FnNext ==
    \/ CallExtractShortId
    \/ CallExtractProductName

SpecFn == FnInit /\ [][FnNext]_vars

(***************************************************************************)
(* Properties of the rename command                                        *)
(***************************************************************************)
\* a filename without its one trailing .yaml or .yml
Stem(filename) ==
    IF EndsWith(filename, EXT_YAML)
    THEN SubSeq(filename, 1, Len(filename) - Len(EXT_YAML))
    ELSE IF EndsWith(filename, EXT_YML)
         THEN SubSeq(filename, 1, Len(filename) - Len(EXT_YML))
         ELSE filename

\* the answer counts as yes: 'yes' or 'y', surrounding blanks and case aside
Affirmative(line) ==
    \E w \in {<<"y", "e", "s">>, <<"y">>} :
        /\ Len(Strip(line)) = Len(w)
        /\ \A i \in 1..Len(w) : LowerChar(Strip(line)[i]) = w[i]

\* the run in progress (or just ended) went past the gate without --dry-run
LiveWalk(a, line) == ~a.dry_run /\ (a.yes \/ (line # NoInput /\ Affirmative(line)))

Actions(l) == {l[i].action : i \in 1..Len(l)}
Clean(l) == Actions(l) \subseteq {"skip_noop", "rename", "delete"}
HasStrId(d) == d.kind = "map" /\ d.open_xpd_uuid.t = "str" /\ d.open_xpd_uuid.s # <<>>

\* this step removed file n of category r/c and created no file there
DeletedInStep(r, c, n) ==
    /\ Exists(fs[r].cats[c], n)
    /\ ~Exists(fs'[r].cats[c], n)
    /\ ListDir(fs'[r].cats[c]) = ListDir(fs[r].cats[c]) \ {n}

\* C1: a live pass deletes a file only when <open_xpd_uuid>.yaml exists and is
\* another file than the one processed, and the target is left as it was.
C1_DeleteOnlyForOtherTarget ==
    [][\A r \in RegionSet, c \in CatNames, n \in Names :
        DeletedInStep(r, c, n) =>
            LET d == fs[r].cats[c].files[n]
                target == d.open_xpd_uuid.s \o EXT_YAML
            IN /\ HasStrId(d)
               /\ target # n
               /\ Exists(fs[r].cats[c], target)
               /\ fs'[r].cats[c].files[target] = fs[r].cats[c].files[target]]_vars

\* C2: after a live pass in which every file was a no-op, renamed or deleted,
\* every remaining YAML file of a walked category is named by its own id.
C2_StemEqualsId ==
    (pc = "exited" /\ LiveWalk(args, response) /\ Clean(log)) =>
        \A r \in RegionSet, c \in CatNames \ {STATES}, n \in Names :
            (Exists(fs[r].cats[c], n) /\ IsYamlName(n)) =>
                /\ HasStrId(fs[r].cats[c].files[n])
                /\ Stem(n) = fs[r].cats[c].files[n].open_xpd_uuid.s

\* C3: the second of two live passes renames nothing, leaves the tree as the
\* first left it, and classifies every file with a valid id as already named.
C3_SecondPassNoop ==
    (/\ pc = "exited" /\ prev.ran
     /\ LiveWalk(prev.args, prev.response) /\ LiveWalk(args, response)
     /\ "error" \notin Actions(prev.log) \cup Actions(log)) =>
        /\ "rename" \notin Actions(log)
        /\ fs = fs0
        /\ \A i \in 1..Len(log) :
              HasStrId(fs0[log[i].region].cats[log[i].category].files[log[i].file])
                  => log[i].action = "skip_noop"

\* C4: a dry run reports for each file the action that the live run started
\* from the same tree with the same listing order takes on it.
C4_DryRunFidelity ==
    (/\ pc = "exited" /\ prev.ran
     /\ prev.args.dry_run /\ LiveWalk(args, response)
     /\ prev.fs0 = fs0
     /\ Len(prev.log) = Len(log)
     /\ \A i \in 1..Len(log) : prev.log[i].file = log[i].file
     /\ "error" \notin Actions(log)) =>
        \A i \in 1..Len(log) :
            /\ prev.log[i].action = log[i].action
            /\ prev.log[i].target = log[i].target

\* C10: whenever a live pass deleted a file with id X (on finding another file
\* under the target name), the category holds at the end of the pass a file
\* whose own id is X.
C10_DeletedIdSurvives ==
    (pc = "exited" /\ LiveWalk(args, response)) =>
        \A i \in 1..Len(log) :
            (log[i].action = "delete" /\ log[i].target # log[i].file) =>
                \E n \in Names :
                    LET d == fs[log[i].region].cats[log[i].category].files[n] IN
                    /\ HasStrId(d)
                    /\ d.open_xpd_uuid =
                         fs0[log[i].region].cats[log[i].category].files[log[i].file].open_xpd_uuid

\* C5: the tree changes only in a run without --dry-run that was started with
\* --yes or got the answer yes / y before its first change; a dry run and a run
\* whose prompt got another answer end with the tree as they found it.
C5_MutationGate ==
    /\ [][fs' # fs => LiveWalk(args, response)]_vars
    /\ []((pc = "exited" /\ (args.dry_run \/ (response # NoInput /\ ~Affirmative(response))))
            => fs = fs0)
\* a session whose first run was refused at the prompt, leaving a file that a
\* live run renames, and whose second run was answered " Y" and changed the tree
C5_Witness ==
    /\ pc = "exited" /\ prev.ran
    /\ ~prev.args.dry_run /\ ~prev.args.yes /\ prev.response = <<"n">>
    /\ ~args.dry_run /\ ~args.yes /\ response = <<" ", "Y">>
    /\ fs # fs0

(***************************************************************************)
(* Properties of the CSV command                                           *)
(***************************************************************************)
\* the YAML files of the categories the CSV command walks
YamlFiles ==
    {f \in RegionSet \X (CatNames \ {STATES}) \X Names :
        /\ fs[f[1]].exists /\ fs[f[1]].cats[f[2]].exists
        /\ Exists(fs[f[1]].cats[f[2]], f[3]) /\ IsYamlName(f[3])}
ContentOf(f) == fs[f[1]].cats[f[2]].files[f[3]]

\* a file that does not parse, or whose name or product_specific field has a
\* value of the wrong type
Faulty(d) ==
    \/ d.kind = "error"
    \/ d.kind = "map" /\ d.name.t \notin {"absent", "str"}
    \/ d.kind = "map" /\ d.product_specific.t \notin {"absent", "map"}

ReadIn(which, f) ==
    \E i \in 1..Len(out) :
        /\ out[i].pass = which /\ out[i].region = f[1]
        /\ out[i].category = f[2] /\ out[i].file = f[3]

\* C6: when a YAML file of the tree is faulty, the CSV command has, when it
\* ends, still read every YAML file of every category in its category pass.
C6_FaultIsolation ==
    (pc \in {"exited", "crashed"} /\ \E f \in YamlFiles : Faulty(ContentOf(f))) =>
        \A g \in YamlFiles : ReadIn("category", g)

\* the YAML files of a category, or of the whole tree, that yield a product
RowFiles(r, c) ==
    {f \in YamlFiles : f[1] = r /\ f[2] = c
        /\ ScanOutcome(ContentOf(f), f[3], r, c).outcome = "row"}
AllRowFiles ==
    {f \in YamlFiles : ScanOutcome(ContentOf(f), f[3], f[1], f[2]).outcome = "row"}
\* a report with its header row and one row for each product
Complete(rows, header, n) == Len(rows) = 1 + n /\ rows[1] = header

\* C9: once the CSV command has ended, normally or not, the file under each
\* final CSV path is absent, the complete previous version or the complete
\* new report.
C9_AllOrNothing ==
    pc \in {"exited", "crashed"} =>
        /\ \A r \in RegionSet, c \in CatNames \ {STATES} :
              LET f == csv[r].top[CsvName(r, c)] IN
              \/ ~f.exists
              \/ f = OldCategoryReport
              \/ Complete(f.rows, CategoryHeader, Cardinality(RowFiles(r, c)))
        /\ \/ ~masterCsv.exists
           \/ masterCsv = OldMasterReport
           \/ Complete(masterCsv.rows, MasterHeader, Cardinality(AllRowFiles))

(***************************************************************************)
(* Properties of the extract functions                                     *)
(***************************************************************************)
\* C7: for a mapping, extract_short_id returns a present, non-empty
\* open_xpd_uuid as it is, and for an absent or empty one the filename without
\* its one trailing .yaml or .yml.
C7_ShortId ==
    (fnRes.op = "extract_short_id" /\ fnDoc.kind = "map") =>
        LET id == fnDoc.open_xpd_uuid IN
        /\ Truthy(id) => fnRes.res = Return(id)
        /\ (id.t = "absent" \/ id = PyStr(<<>>)) => fnRes.res = Return(PyStr(Stem(fnFile)))

\* C8: for a mapping, extract_product_name returns name, else
\* product_specific.product_name when product_specific is a mapping that has
\* it, else product_name, else "Unknown Product", and never fails.
C8_ProductName ==
    (fnRes.op = "extract_product_name" /\ fnDoc.kind = "map") =>
        fnRes.res = Return(
            IF fnDoc.name.t # "absent" THEN fnDoc.name
            ELSE IF fnDoc.product_specific.t = "map"
                    /\ fnDoc.product_specific.pn.t # "absent"
                 THEN fnDoc.product_specific.pn
            ELSE IF fnDoc.product_name.t # "absent" THEN fnDoc.product_name
            ELSE PyStr(UNKNOWN_PRODUCT))

====
